---- MODULE Spec2Model ----
(***************************************************************************)
(* RTSP client transport and session layer (sdp-information-rs).           *)
(*                                                                         *)
(*   tokyo.rs       Codec (parse_msg, decode), Connection (Framed stream)  *)
(*   client/mod.rs  RtspConnection (connect, get_sdp, fill_req), get_cseq  *)
(*                                                                         *)
(* The receive buffer is a sequence of octets.  The text grammar of RTSP   *)
(* requests and responses belongs to the rtsp-types crate; it is stood in  *)
(* for by a small positional grammar (MessageParse) that keeps what the    *)
(* code relies on: a prefix of a message is Incomplete, a message has a    *)
(* consumed length, an optional body that is a sub-slice of the buffer,    *)
(* and headers CSeq and WWW-Authenticate that may be absent.               *)
(***************************************************************************)
EXTENDS Integers, Sequences, FiniteSets, TLC

(***************************************************************************)
(* Bounds of the model.                                                    *)
(***************************************************************************)
\* fill_req is entered only while next_cseq <= MaxCseq
MaxCseq == 3
\* frames the peer writes to the socket during one behaviour
MaxFrames == 2
\* frames the peer writes during one behaviour of the codec specification
MaxCodecFrames == 2
\* socket reads during one behaviour of the framing-error specification
MaxFeeds == 3

(***************************************************************************)
(* Octets and tokens.                                                      *)
(***************************************************************************)
\* b'$', the interleaved-data marker
DOLLAR == 36
\* first token of a response ("RTSP/1.0 ...") and of a request (a method)
RSP == 82
REQ == 68
\* end of the header block
LF == 10
\* '+', '0', 'x'
PLUS == 43
ZERO == 48
LETTER == 120
\* status codes
StatusOk == 200
StatusUnauthorized == 401
StatusNotFound == 404
\* WWW-Authenticate tokens: no header, a challenge http_auth accepts, one it rejects
NoHeader == 0
GoodChallenge == 1
BadChallenge == 2
MAX_DUMP_BYTES == 128
\* u32::MAX, the width of next_cseq and of a parsed CSeq, scaled from 32 bits
\* to 8 (TLC's integers are 32-bit signed)
U32Max == 255

Take(s, n) == SubSeq(s, 1, n)
Drop(s, n) == SubSeq(s, n + 1, Len(s))

\* u16::from_be_bytes([hi, lo])
U16FromBe(hi, lo) == hi * 256 + lo

(***************************************************************************)
(* Messages.  One record shape for the three variants of                   *)
(* rtsp_types::Message; fields a variant does not have hold defaults.      *)
(* body is the byte range [start, start + len) of the parsed input while   *)
(* the message borrows the buffer, and the owned bytes afterwards.         *)
(***************************************************************************)
DataMsg(channel_id, payload) ==
    [kind |-> "Data", status |-> 0, www_authenticate |-> NoHeader,
     cseq |-> <<>>, body |-> payload, channel_id |-> channel_id]

TextMsg(kind, status, www, cseq, body) ==
    [kind |-> kind, status |-> status, www_authenticate |-> www,
     cseq |-> cseq, body |-> body, channel_id |-> 0]

NoMsg == TextMsg("None", 0, NoHeader, <<>>, <<>>)

StatusTokens == {0, StatusOk, StatusUnauthorized, StatusNotFound}

\* index of the LF that ends the header block (0: not buffered yet)
HeaderEnd(src) ==
    IF \E i \in 5..Len(src) : src[i] = LF
    THEN CHOOSE i \in 5..Len(src) :
             src[i] = LF /\ \A j \in 5..(i - 1) : src[j] # LF
    ELSE 0

(***************************************************************************)
(* rtsp_types::Message::parse: Incomplete | Error | Ok(message, consumed). *)
(* Layout of a request or response:                                        *)
(*     kind, status, WWW-Authenticate, body length, CSeq text..., LF, body *)
(* Like the crate's parser it also accepts an interleaved-data frame.      *)
(***************************************************************************)
MessageParse(src) ==
    IF src = <<>> THEN [tag |-> "Incomplete", len |-> 0, msg |-> NoMsg]
    ELSE IF src[1] = DOLLAR THEN
        IF Len(src) < 4 \/ Len(src) < 4 + U16FromBe(src[3], src[4])
        THEN [tag |-> "Incomplete", len |-> 0, msg |-> NoMsg]
        ELSE LET len == 4 + U16FromBe(src[3], src[4])
             IN  [tag |-> "Ok", len |-> len,
                  msg |-> DataMsg(src[2], SubSeq(src, 5, len))]
    ELSE IF src[1] \notin {REQ, RSP} THEN [tag |-> "Error", len |-> 0, msg |-> NoMsg]
    ELSE IF Len(src) >= 2 /\ src[2] \notin StatusTokens
    THEN [tag |-> "Error", len |-> 0, msg |-> NoMsg]
    ELSE IF Len(src) < 4 \/ HeaderEnd(src) = 0 \/ Len(src) < HeaderEnd(src) + src[4]
    THEN [tag |-> "Incomplete", len |-> 0, msg |-> NoMsg]
    ELSE LET k == HeaderEnd(src)
         IN  [tag |-> "Ok", len |-> k + src[4],
              msg |-> TextMsg(IF src[1] = REQ THEN "Request" ELSE "Response",
                              src[2], src[3], SubSeq(src, 5, k - 1),
                              [start |-> k, len |-> src[4]])]

\* rtsp_connection::as_range: None for an empty subset, else its offsets in buf
as_range(buf, subset) ==
    IF subset.len = 0 THEN [some |-> FALSE, start |-> 0, len |-> 0]
    ELSE [some |-> TRUE, start |-> subset.start, len |-> subset.len]

(***************************************************************************)
(* Codec::parse_msg.  res is "None" (need more data), "Some" (a message of *)
(* len bytes), "Err" (CodecError::ParseError) or "Unreachable" (the        *)
(* unreachable!() arm); src is the buffer the call leaves behind.          *)
(***************************************************************************)
ParseNone(src) ==
    [res |-> "None", len |-> 0, msg |-> NoMsg, src |-> src, pos |-> 0, dumped |-> 0]

ParseSome(len, msg, src) ==
    [res |-> "Some", len |-> len, msg |-> msg, src |-> src, pos |-> 0, dumped |-> 0]

\* Request and Response arms: consume len bytes, keep the body bytes only
TakeBody(src, m, len) ==
    LET body_range == as_range(src, m.body)
    IN  IF body_range.some
        THEN LET raw_msg == Take(src, len)
             IN  ParseSome(len,
                           [m EXCEPT !.body = Take(Drop(raw_msg, body_range.start),
                                                   body_range.len)],
                           Drop(src, len))
        ELSE ParseSome(len, [m EXCEPT !.body = <<>>], Drop(src, len))

\* mutant of parse_data: the header is taken off the buffer before the length check
parse_data_header_taken(src) ==
    IF Len(src) < 4 THEN ParseNone(src)
    ELSE LET channel_id == src[2]
             len == 4 + U16FromBe(src[3], src[4])
         IN  IF Len(src) < len THEN ParseNone(Drop(src, 4))
             ELSE LET msg == Take(src, len)
                  IN  ParseSome(len, DataMsg(channel_id, Drop(msg, 4)), Drop(src, len))

\* mutant of parse_data: src.len() <= len in place of src.len() < len
parse_data_le(src) ==
    IF Len(src) < 4 THEN ParseNone(src)
    ELSE LET channel_id == src[2]
             len == 4 + U16FromBe(src[3], src[4])
         IN  IF Len(src) <= len THEN ParseNone(src)
             ELSE LET msg == Take(src, len)
                  IN  ParseSome(len, DataMsg(channel_id, Drop(msg, 4)), Drop(src, len))

\* mutant of parse_data: msg.advance(4) is missing, the payload keeps the header
parse_data_keeps_header(src) ==
    IF Len(src) < 4 THEN ParseNone(src)
    ELSE LET channel_id == src[2]
             len == 4 + U16FromBe(src[3], src[4])
         IN  IF Len(src) < len THEN ParseNone(src)
             ELSE LET msg == Take(src, len)
                  IN  ParseSome(len, DataMsg(channel_id, msg), Drop(src, len))

\* parse_msg, lines 33-47: the buffer starts with '$'
parse_data(src) ==
    IF Len(src) < 4 THEN ParseNone(src)
    ELSE LET channel_id == src[2]
             len == 4 + U16FromBe(src[3], src[4])
         IN  IF Len(src) < len THEN ParseNone(src)
             ELSE LET msg == Take(src, len)
                  IN  ParseSome(len, DataMsg(channel_id, Drop(msg, 4)), Drop(src, len))

\* mutant of parse_msg: the dump is not capped
parse_msg_dump_uncapped(src, read_pos) ==
    IF src # <<>> /\ src[1] = DOLLAR THEN parse_data(src)
    ELSE LET p == MessageParse(src)
         IN  CASE p.tag = "Error" ->
                    [res |-> "Err", len |-> 0, msg |-> NoMsg, src |-> src,
                     pos |-> read_pos, dumped |-> Len(src)]
               [] p.tag = "Incomplete" -> ParseNone(src)
               [] p.tag = "Ok" /\ p.msg.kind \in {"Request", "Response"} ->
                    TakeBody(src, p.msg, p.len)
               [] OTHER ->
                    [res |-> "Unreachable", len |-> 0, msg |-> NoMsg, src |-> src,
                     pos |-> read_pos, dumped |-> 0]

\* mutant of parse_msg: the test for '$' is missing, every buffer goes to the
\* grammar parser
parse_msg_no_data_branch(src, read_pos) ==
    LET p == MessageParse(src)
    IN  CASE p.tag = "Error" ->
               [res |-> "Err", len |-> 0, msg |-> NoMsg, src |-> src,
                pos |-> read_pos,
                dumped |-> IF Len(src) > MAX_DUMP_BYTES
                           THEN MAX_DUMP_BYTES ELSE Len(src)]
          [] p.tag = "Incomplete" -> ParseNone(src)
          [] p.tag = "Ok" /\ p.msg.kind \in {"Request", "Response"} ->
               TakeBody(src, p.msg, p.len)
          [] OTHER ->
               [res |-> "Unreachable", len |-> 0, msg |-> NoMsg, src |-> src,
                pos |-> read_pos, dumped |-> 0]

parse_msg(src, read_pos) ==
    IF src # <<>> /\ src[1] = DOLLAR THEN parse_data(src)
    ELSE LET p == MessageParse(src)
         IN  CASE p.tag = "Error" ->
                    [res |-> "Err", len |-> 0, msg |-> NoMsg, src |-> src,
                     pos |-> read_pos,
                     dumped |-> IF Len(src) > MAX_DUMP_BYTES
                                THEN MAX_DUMP_BYTES ELSE Len(src)]
               [] p.tag = "Incomplete" -> ParseNone(src)
               [] p.tag = "Ok" /\ p.msg.kind \in {"Request", "Response"} ->
                    TakeBody(src, p.msg, p.len)
               [] OTHER ->
                    [res |-> "Unreachable", len |-> 0, msg |-> NoMsg, src |-> src,
                     pos |-> read_pos, dumped |-> 0]

(***************************************************************************)
(* Codec::decode: stamps the message with the read position before the     *)
(* advance, then advances read_pos by the consumed length.                 *)
(***************************************************************************)
\* mutant of decode: the context is stamped after read_pos has advanced
decode_pos_after_advance(src, read_pos) ==
    LET r == parse_msg(src, read_pos)
    IN  IF r.res = "Some"
        THEN [res |-> "Some", len |-> r.len, msg |-> r.msg,
              ctx |-> [pos |-> read_pos + r.len],
              src |-> r.src, read_pos |-> read_pos + r.len, dumped |-> 0]
        ELSE [res |-> r.res, len |-> 0, msg |-> NoMsg, ctx |-> [pos |-> r.pos],
              src |-> r.src, read_pos |-> read_pos, dumped |-> r.dumped]

decode(src, read_pos) ==
    LET r == parse_msg(src, read_pos)
    IN  IF r.res = "Some"
        THEN [res |-> "Some", len |-> r.len, msg |-> r.msg, ctx |-> [pos |-> read_pos],
              src |-> r.src, read_pos |-> read_pos + r.len, dumped |-> 0]
        ELSE [res |-> r.res, len |-> 0, msg |-> NoMsg, ctx |-> [pos |-> r.pos],
              src |-> r.src, read_pos |-> read_pos, dumped |-> r.dumped]

(***************************************************************************)
(* client/mod.rs                                                           *)
(***************************************************************************)
\* cseq.to_string()
RECURSIVE to_string(_)
to_string(n) ==
    IF n < 10 THEN <<ZERO + n>>
    ELSE Append(to_string(n \div 10), ZERO + (n % 10))

IsDigit(c) == c \in ZERO..(ZERO + 9)

\* the digit loop of u32::from_str_radix: -1 on a non-digit or on overflow
RECURSIVE ParseDigits(_, _)
ParseDigits(s, acc) ==
    IF s = <<>> THEN acc
    ELSE IF ~IsDigit(Head(s)) THEN -1
    ELSE LET v == acc * 10 + (Head(s) - ZERO)
         IN  IF v > U32Max THEN -1 ELSE ParseDigits(Tail(s), v)

\* u32::from_str_radix(s, 10).ok(), None as -1: an optional '+', then digits
u32_from_str_radix(s) ==
    IF s = <<>> THEN -1
    ELSE LET digits == IF Head(s) = PLUS THEN Tail(s) ELSE s
         IN  IF digits = <<>> THEN -1 ELSE ParseDigits(digits, 0)

\* get_cseq: None (-1) when the header is absent or does not parse
get_cseq(response) ==
    IF response.cseq = <<>> THEN -1 ELSE u32_from_str_radix(response.cseq)

\* mutant of IsMatch: <= in place of ==
IsMatch_cseq_le(msg, c) ==
    /\ msg.kind = "Response"
    /\ get_cseq(msg) # -1
    /\ get_cseq(msg) <= c

\* mutant of IsMatch: any response with a CSeq that parses is taken
IsMatch_any_cseq(msg, c) ==
    /\ msg.kind = "Response"
    /\ get_cseq(msg) # -1

\* mutant of IsMatch: the response is compared with the number after the one sent
IsMatch_cseq_off_by_one(msg, c) ==
    /\ msg.kind = "Response"
    /\ get_cseq(msg) # -1
    /\ get_cseq(msg) = c + 1

\* the inner loop's test: a response whose CSeq equals the one just sent
IsMatch(msg, c) ==
    /\ msg.kind = "Response"
    /\ get_cseq(msg) # -1
    /\ get_cseq(msg) = c

\* http_auth::PasswordClient::try_from(www_authenticate).is_ok()
PasswordClientTryFrom(www_authenticate) == www_authenticate = GoodChallenge

\* StatusCode::is_success
is_success(status) == status >= 200 /\ status < 300

\* self.next_cseq += 1 on a u32 where the build wraps on overflow
IncU32(n) == (n + 1) % (U32Max + 1)

FreshReq == [cseq |-> <<>>, authorization |-> FALSE]

\* mutant of fill_req: next_cseq is not advanced
fill_req_no_increment(nc, auth, cr, r, respond_ok, overflow_checks) ==
    LET c == nc
        nxt == nc
    IN  IF auth = "Some" THEN
            IF cr = "None"
            THEN [out |-> "Panic", cseq |-> c, next_cseq |-> nxt, req |-> r,
                  responded |-> FALSE]
            ELSE IF ~respond_ok
            THEN [out |-> "Err", cseq |-> c, next_cseq |-> nxt, req |-> r,
                  responded |-> TRUE]
            ELSE [out |-> "Ok", cseq |-> c, next_cseq |-> nxt,
                  req |-> [authorization |-> TRUE, cseq |-> to_string(c)],
                  responded |-> TRUE]
        ELSE [out |-> "Ok", cseq |-> c, next_cseq |-> nxt,
              req |-> [r EXCEPT !.cseq = to_string(c)], responded |-> FALSE]

(***************************************************************************)
(* fill_req: takes the sequence number, then, with a filled slot, computes *)
(* the Authorization header (respond may fail), then stamps CSeq.  The     *)
(* addition at the counter's maximum does what the build makes it do: with *)
(* overflow checks (the debug profile) it panics, without them (the        *)
(* release profile) it wraps to 0.                                         *)
(***************************************************************************)
fill_req(nc, auth, cr, r, respond_ok, overflow_checks) ==
    LET c == nc
        nxt == IncU32(nc)
    IN  IF overflow_checks /\ nc = U32Max
        THEN [out |-> "Overflow", cseq |-> c, next_cseq |-> nc, req |-> r,
              responded |-> FALSE]
        ELSE IF auth = "Some" THEN
                 IF cr = "None"
                 THEN [out |-> "Panic", cseq |-> c, next_cseq |-> nxt, req |-> r,
                       responded |-> FALSE]
                 ELSE IF ~respond_ok
                 THEN [out |-> "Err", cseq |-> c, next_cseq |-> nxt, req |-> r,
                       responded |-> TRUE]
                 ELSE [out |-> "Ok", cseq |-> c, next_cseq |-> nxt,
                       req |-> [authorization |-> TRUE, cseq |-> to_string(c)],
                       responded |-> TRUE]
             ELSE [out |-> "Ok", cseq |-> c, next_cseq |-> nxt,
                   req |-> [r EXCEPT !.cseq = to_string(c)], responded |-> FALSE]

(***************************************************************************)
(* get_sdp, lines 87-143: what the matching response leads to.  act is     *)
(* "bail" (an RtspResponseError with that description), "continue" (the    *)
(* retry) or "return"; slot is the authentication slot afterwards.         *)
(***************************************************************************)
Bail(description, slot) ==
    [act |-> "bail", description |-> description, slot |-> slot]

Continue(slot) == [act |-> "continue", description |-> "", slot |-> slot]

Return(slot) == [act |-> "return", description |-> "", slot |-> slot]

\* mutant of OnResponse: the test of requested_auth.is_some() is missing
OnResponse_no_retry_limit(resp, auth, cr) ==
    IF resp.status = StatusUnauthorized THEN
        IF resp.www_authenticate = NoHeader
        THEN Bail("Unauthorized without WWW-Authenticate header", auth)
        ELSE IF cr = "None"
        THEN Bail("Authentication requested and no credentials supplied", auth)
        ELSE IF PasswordClientTryFrom(resp.www_authenticate)
        THEN Continue("Some")
        ELSE Bail("Can't understand WWW-Authenticate header", auth)
    ELSE IF ~is_success(resp.status)
    THEN Bail("Unexpected RTSP response status", auth)
    ELSE Return(auth)

\* mutant of OnResponse: the test of self.creds.is_none() is missing
OnResponse_creds_unchecked(resp, auth, cr) ==
    IF resp.status = StatusUnauthorized THEN
        IF auth = "Some"
        THEN Bail("Received Unauthorized after trying digest auth", auth)
        ELSE IF resp.www_authenticate = NoHeader
        THEN Bail("Unauthorized without WWW-Authenticate header", auth)
        ELSE IF PasswordClientTryFrom(resp.www_authenticate)
        THEN Continue("Some")
        ELSE Bail("Can't understand WWW-Authenticate header", auth)
    ELSE IF ~is_success(resp.status)
    THEN Bail("Unexpected RTSP response status", auth)
    ELSE Return(auth)

\* mutant of OnResponse: the test of is_success() is missing
OnResponse_status_unchecked(resp, auth, cr) ==
    IF resp.status = StatusUnauthorized THEN
        IF auth = "Some"
        THEN Bail("Received Unauthorized after trying digest auth", auth)
        ELSE IF resp.www_authenticate = NoHeader
        THEN Bail("Unauthorized without WWW-Authenticate header", auth)
        ELSE IF cr = "None"
        THEN Bail("Authentication requested and no credentials supplied", auth)
        ELSE IF PasswordClientTryFrom(resp.www_authenticate)
        THEN Continue("Some")
        ELSE Bail("Can't understand WWW-Authenticate header", auth)
    ELSE Return(auth)

\* mutant of OnResponse: an absent WWW-Authenticate header is handed to the
\* challenge parser like a present one
OnResponse_header_unchecked(resp, auth, cr) ==
    IF resp.status = StatusUnauthorized THEN
        IF auth = "Some"
        THEN Bail("Received Unauthorized after trying digest auth", auth)
        ELSE IF cr = "None"
        THEN Bail("Authentication requested and no credentials supplied", auth)
        ELSE IF PasswordClientTryFrom(resp.www_authenticate)
        THEN Continue("Some")
        ELSE Bail("Can't understand WWW-Authenticate header", auth)
    ELSE IF ~is_success(resp.status)
    THEN Bail("Unexpected RTSP response status", auth)
    ELSE Return(auth)

\* mutant of OnResponse: the challenge is parsed before the credentials are tested
OnResponse_parse_before_creds(resp, auth, cr) ==
    IF resp.status = StatusUnauthorized THEN
        IF auth = "Some"
        THEN Bail("Received Unauthorized after trying digest auth", auth)
        ELSE IF resp.www_authenticate = NoHeader
        THEN Bail("Unauthorized without WWW-Authenticate header", auth)
        ELSE IF ~PasswordClientTryFrom(resp.www_authenticate)
        THEN Bail("Can't understand WWW-Authenticate header", auth)
        ELSE IF cr = "None"
        THEN Bail("Authentication requested and no credentials supplied", auth)
        ELSE Continue("Some")
    ELSE IF ~is_success(resp.status)
    THEN Bail("Unexpected RTSP response status", auth)
    ELSE Return(auth)

\* mutant of OnResponse: a second Unauthorized empties the slot
OnResponse_slot_cleared(resp, auth, cr) ==
    IF resp.status = StatusUnauthorized THEN
        IF auth = "Some"
        THEN Bail("Received Unauthorized after trying digest auth", "None")
        ELSE IF resp.www_authenticate = NoHeader
        THEN Bail("Unauthorized without WWW-Authenticate header", auth)
        ELSE IF cr = "None"
        THEN Bail("Authentication requested and no credentials supplied", auth)
        ELSE IF PasswordClientTryFrom(resp.www_authenticate)
        THEN Continue("Some")
        ELSE Bail("Can't understand WWW-Authenticate header", auth)
    ELSE IF ~is_success(resp.status)
    THEN Bail("Unexpected RTSP response status", auth)
    ELSE Return(auth)

\* mutant of OnResponse: the slot is assigned before the credentials are tested
OnResponse_slot_before_creds(resp, auth, cr) ==
    IF resp.status = StatusUnauthorized THEN
        IF auth = "Some"
        THEN Bail("Received Unauthorized after trying digest auth", auth)
        ELSE IF resp.www_authenticate = NoHeader
        THEN Bail("Unauthorized without WWW-Authenticate header", auth)
        ELSE IF ~PasswordClientTryFrom(resp.www_authenticate)
        THEN Bail("Can't understand WWW-Authenticate header", auth)
        ELSE IF cr = "None"
        THEN Bail("Authentication requested and no credentials supplied", "Some")
        ELSE Continue("Some")
    ELSE IF ~is_success(resp.status)
    THEN Bail("Unexpected RTSP response status", auth)
    ELSE Return(auth)

OnResponse(resp, auth, cr) ==
    IF resp.status = StatusUnauthorized THEN
        IF auth = "Some"
        THEN Bail("Received Unauthorized after trying digest auth", auth)
        ELSE IF resp.www_authenticate = NoHeader
        THEN Bail("Unauthorized without WWW-Authenticate header", auth)
        ELSE IF cr = "None"
        THEN Bail("Authentication requested and no credentials supplied", auth)
        ELSE IF PasswordClientTryFrom(resp.www_authenticate)
        THEN Continue("Some")
        ELSE Bail("Can't understand WWW-Authenticate header", auth)
    ELSE IF ~is_success(resp.status)
    THEN Bail("Unexpected RTSP response status", auth)
    ELSE Return(auth)

(***************************************************************************)
(* connect and validate_url.  A URL as the url crate presents it: scheme   *)
(* (lower case), username ("" when absent), password and host ("None" when *)
(* absent), port (<<>> when absent, else <<p>>).                           *)
(***************************************************************************)
Url(scheme, username, password, host, port) ==
    [scheme |-> scheme, username |-> username, password |-> password,
     host |-> host, port |-> port]

\* url.port().unwrap_or(554)
DEFAULT_PORT == 554

\* a port other than the default
OTHER_PORT == 8554

unwrap_or(port, default) == IF port = <<>> THEN default ELSE port[1]

\* mutant of validate_url: only the username is tested, not the password
validate_url_password_unchecked(u) ==
    IF u.scheme # "rtsp"
    THEN [ok |-> FALSE, host |-> "None", err |-> "only scheme rtsp supported"]
    ELSE IF u.username # ""
    THEN [ok |-> FALSE, host |-> "None", err |-> "URL must not contain credentials"]
    ELSE IF u.host = "None"
    THEN [ok |-> FALSE, host |-> "None", err |-> "Must specify host in rtsp url"]
    ELSE [ok |-> TRUE, host |-> u.host, err |-> ""]

validate_url(u) ==
    IF u.scheme # "rtsp"
    THEN [ok |-> FALSE, host |-> "None", err |-> "only scheme rtsp supported"]
    ELSE IF u.username # "" \/ u.password # "None"
    THEN [ok |-> FALSE, host |-> "None", err |-> "URL must not contain credentials"]
    ELSE IF u.host = "None"
    THEN [ok |-> FALSE, host |-> "None", err |-> "Must specify host in rtsp url"]
    ELSE [ok |-> TRUE, host |-> u.host, err |-> ""]

(***************************************************************************)
(* State.                                                                  *)
(***************************************************************************)
VARIABLES
    url,             \* the URL handed to connect
    dialed,          \* the TCP connection attempts made, as (host, port)
    creds,           \* RtspConnection.creds: "None" or "Some"
    next_cseq,       \* RtspConnection.next_cseq
    requested_auth,  \* the caller's authentication slot: "None" or "Some"
    req,             \* headers get_sdp has put on the caller's request
    cseq,            \* get_sdp's local cseq: the value on the request just sent
    pc,              \* "idle", "send" (in inner.send), "recv" (in inner.next), "panicked";
                     \* in connect: "connect" (not yet called), "dialing", "failed"
    result,          \* what the last get_sdp call returned
    buf,             \* Framed's read buffer
    read_pos,        \* Codec.read_pos
    has_errored,     \* the stream has yielded an error: the connection is not used again
    wire,            \* octets the peer has written and the socket has not yet delivered
    closed,          \* the peer has closed its end
    nframes,         \* frames the peer has written
    sent,            \* requests handed to inner.send, oldest first
    exch,            \* the current exchange: slot at its start, requests sent, respond
                     \* calls, and whether the call before it was abandoned
    polled,          \* what the last decode / stream poll yielded; partial counts the
                     \* need-more-data answers since the last message (codec specification)
    stream,          \* codec specification: every octet appended to buf so far
    log              \* codec specification: every decoded message, with pos and len

vars == <<url, dialed, creds, next_cseq, requested_auth, req, cseq, pc, result, buf,
          read_pos, has_errored, wire, closed, nframes, sent, exch, polled, stream,
          log>>

\* what connect fixes for the lifetime of the connection
setupVars == <<url, dialed, creds>>

clientVars == <<setupVars, next_cseq, requested_auth, req, cseq, result, sent, exch>>
connVars == <<buf, read_pos, has_errored, polled>>
peerVars == <<wire, closed, nframes>>
codecHist == <<stream, log>>

NoResult == [kind |-> "none", description |-> "", cseq |-> 0, status |-> 0, pos |-> 0]

Outcome(kind, description, c, status, pos) ==
    [kind |-> kind, description |-> description, cseq |-> c, status |-> status,
     pos |-> pos]

Polled(item, pos, len, msg, partial) ==
    [item |-> item, pos |-> pos, len |-> len, msg |-> msg, partial |-> partial]

NoPoll == Polled("none", 0, 0, NoMsg, 0)

\* after_abandon: the previous call on this connection was abandoned (a history
\* flag kept by the specification of abandonment only)
NewExch(auth, after_abandon) ==
    [start_auth |-> auth, n_sent |-> 0, responds |-> 0,
     after_abandon |-> after_abandon]

ErrorKinds ==
    {"RtspResponseError", "RtspReadError", "RtspFramingError", "WriteError",
     "Internal"}

\* RtspConnection::connect and Connection::from_stream: the state they construct
Init ==
    /\ url = Url("rtsp", "", "None", "Domain", <<>>)
    /\ dialed = <<[host |-> "Domain", port |-> DEFAULT_PORT]>>
    /\ creds \in {"None", "Some"}
    /\ next_cseq = 1
    /\ requested_auth = "None"
    /\ req = FreshReq
    /\ cseq = 0
    /\ pc = "idle"
    /\ result = NoResult
    /\ buf = <<>>
    /\ read_pos = 0
    /\ has_errored = FALSE
    /\ wire = <<>>
    /\ closed = FALSE
    /\ nframes = 0
    /\ sent = <<>>
    /\ exch = NewExch("None", FALSE)
    /\ polled = NoPoll
    /\ stream = <<>>
    /\ log = <<>>

\* The builds to tell apart when the counter is nc, by their overflow checks:
\* both at the maximum; below it the addition is the same in either, and one
\* stands for both.
Builds(nc) == IF nc = U32Max THEN BOOLEAN ELSE {FALSE}

(***************************************************************************)
(* get_sdp, lines 67-72: the head of the retry loop up to the suspension   *)
(* in inner.send.  auth is the slot, r the request, e the exchange record. *)
(***************************************************************************)
Attempt(auth, r, e, respond_ok) ==
    \E overflow_checks \in Builds(next_cseq) :
    LET f == fill_req(next_cseq, auth, creds, r, respond_ok, overflow_checks)
        e2 == [e EXCEPT !.responds = @ + (IF f.responded THEN 1 ELSE 0)]
    IN  /\ next_cseq' = f.next_cseq
        /\ req' = f.req
        /\ requested_auth' = auth
        /\ IF f.out = "Ok"
           THEN /\ cseq' = f.cseq
                /\ sent' = Append(sent, f.req)
                /\ exch' = [e2 EXCEPT !.n_sent = @ + 1]
                /\ pc' = "send"
                /\ result' = NoResult
           ELSE /\ cseq' = cseq
                /\ sent' = sent
                /\ exch' = e2
                /\ pc' = IF f.out = "Err" THEN "idle" ELSE "panicked"
                /\ result' = CASE f.out = "Panic" ->
                                     Outcome("panic",
                                             "creds were checked when filling request_auth",
                                             0, 0, 0)
                                [] f.out = "Overflow" ->
                                     Outcome("panic", "attempt to add with overflow",
                                             0, 0, 0)
                                [] OTHER -> Outcome("Internal", "", 0, 0, 0)

\* The caller starts an exchange with a fresh request, passing the slot as the
\* previous exchange left it or an empty one.  A connection whose stream has
\* failed (read or framing error) is dropped, not reused.
Call ==
    /\ pc = "idle"
    /\ ~has_errored
    /\ next_cseq <= MaxCseq
    /\ \E auth \in {requested_auth, "None"}, respond_ok \in BOOLEAN :
           Attempt(auth, FreshReq, NewExch(auth, FALSE), respond_ok)
    /\ UNCHANGED <<setupVars, connVars, peerVars, codecHist>>

\* inner.send(...).await completes
SendDone ==
    /\ pc = "send"
    /\ pc' = "recv"
    /\ UNCHANGED <<clientVars, connVars, peerVars, codecHist>>

\* inner.send(...).await fails: WriteError
SendFails ==
    /\ pc = "send"
    /\ pc' = "idle"
    /\ result' = Outcome("WriteError", "", 0, 0, 0)
    /\ UNCHANGED <<setupVars, next_cseq, requested_auth, req, cseq, sent, exch,
                   connVars, peerVars, codecHist>>

\* The caller drops the get_sdp future at one of its suspension points.
Abandon ==
    /\ pc \in {"send", "recv"}
    /\ pc' = "idle"
    /\ result' = Outcome("abandoned", "", 0, 0, 0)
    /\ UNCHANGED <<setupVars, next_cseq, requested_auth, req, cseq, sent, exch,
                   connVars, peerVars, codecHist>>

(***************************************************************************)
(* Connection::poll_next over Framed: decode what is buffered; read from   *)
(* the socket only when decode needs more data.                            *)
(***************************************************************************)
\* what one socket read may return of the octets in flight: all, or the first half
ChunkSizes(w) == {(Len(w) + 1) \div 2, Len(w)} \ {0}

\* the socket delivers some of the octets in flight
RecvRead ==
    /\ pc = "recv"
    /\ decode(buf, read_pos).res = "None"
    /\ \E n \in ChunkSizes(wire) :
           /\ buf' = buf \o Take(wire, n)
           /\ wire' = Drop(wire, n)
    /\ UNCHANGED <<pc, clientVars, read_pos, has_errored, polled, closed, nframes,
                   codecHist>>

\* get_sdp, lines 73-143: the stream yields a message
RecvMsg ==
    /\ pc = "recv"
    /\ LET d == decode(buf, read_pos)
       IN  /\ d.res = "Some"
           /\ buf' = d.src
           /\ read_pos' = d.read_pos
           /\ polled' = Polled("Msg", d.ctx.pos, d.len, d.msg, 0)
           /\ IF ~IsMatch(d.msg, cseq)
              THEN UNCHANGED <<pc, clientVars>>
              ELSE LET o == OnResponse(d.msg, requested_auth, creds)
                   IN  CASE o.act = "continue" ->
                              /\ \E respond_ok \in BOOLEAN :
                                     Attempt(o.slot, req, exch, respond_ok)
                              /\ UNCHANGED setupVars
                         [] o.act = "bail" ->
                              /\ pc' = "idle"
                              /\ result' = Outcome("RtspResponseError", o.description,
                                                   cseq, d.msg.status, d.ctx.pos)
                              /\ requested_auth' = o.slot
                              /\ UNCHANGED <<setupVars, next_cseq, req, cseq, sent, exch>>
                         [] OTHER ->
                              /\ pc' = "idle"
                              /\ result' = Outcome("Ok", "", cseq, d.msg.status,
                                                   d.ctx.pos)
                              /\ requested_auth' = o.slot
                              /\ UNCHANGED <<setupVars, next_cseq, req, cseq, sent, exch>>
    /\ UNCHANGED <<has_errored, peerVars, codecHist>>

\* poll_next, lines 219-227: decode fails, the stream yields RtspFramingError
RecvFramingError ==
    /\ pc = "recv"
    /\ LET d == decode(buf, read_pos)
       IN  /\ d.res = "Err"
           /\ polled' = Polled("FramingError", d.ctx.pos, d.dumped, NoMsg, 0)
           /\ result' = Outcome("RtspFramingError", "", 0, 0, d.ctx.pos)
    /\ pc' = "idle"
    /\ has_errored' = TRUE
    /\ UNCHANGED <<setupVars, next_cseq, requested_auth, req, cseq, sent, exch,
                   buf, read_pos, peerVars, codecHist>>

\* mutant of eof_ctx: the buffered octets are not counted
eof_ctx_consumed_only(rp, b) == [pos |-> rp]

\* Connection::eof_ctx
eof_ctx(rp, b) == [pos |-> rp + Len(b)]

\* poll_next, lines 214-218: the socket read fails, the stream yields RtspReadError
RecvIoError ==
    /\ pc = "recv"
    /\ ~closed
    /\ decode(buf, read_pos).res = "None"
    /\ polled' = Polled("ReadError", eof_ctx(read_pos, buf).pos, 0, NoMsg, 0)
    /\ result' = Outcome("RtspReadError", "", 0, 0, eof_ctx(read_pos, buf).pos)
    /\ pc' = "idle"
    /\ has_errored' = TRUE
    /\ UNCHANGED <<setupVars, next_cseq, requested_auth, req, cseq, sent, exch,
                   buf, read_pos, peerVars, codecHist>>

\* The socket reports end of stream.  With octets left in the buffer Framed's
\* decode_eof fails ("bytes remaining on stream") and the stream yields
\* RtspReadError; with none the stream ends (None) and line 74 unwraps it.
RecvEof ==
    /\ pc = "recv"
    /\ closed
    /\ wire = <<>>
    /\ decode(buf, read_pos).res = "None"
    /\ IF buf = <<>>
       THEN /\ polled' = Polled("None", 0, 0, NoMsg, 0)
            /\ pc' = "panicked"
            /\ result' = Outcome("panic", "called Option::unwrap() on a None value",
                                 0, 0, 0)
            /\ UNCHANGED has_errored
       ELSE /\ polled' = Polled("ReadError", eof_ctx(read_pos, buf).pos, 0, NoMsg, 0)
            /\ pc' = "idle"
            /\ result' = Outcome("RtspReadError", "", 0, 0, eof_ctx(read_pos, buf).pos)
            /\ has_errored' = TRUE
    /\ UNCHANGED <<setupVars, next_cseq, requested_auth, req, cseq, sent, exch,
                   buf, read_pos, peerVars, codecHist>>

(***************************************************************************)
(* The peer.                                                               *)
(***************************************************************************)
\* the wire form of a request or response in MessageParse's layout
Frame(kind, status, www, cseq_text, body) ==
    <<kind, status, www, Len(body)>> \o cseq_text \o <<LF>> \o body

\* the decimal forms of the sequence numbers
NumericTexts == {to_string(c) : c \in 1..MaxCseq}

ResponseHeads ==
    {<<StatusOk, NoHeader, <<LETTER>>>>,
     <<StatusNotFound, NoHeader, <<>>>>, <<StatusUnauthorized, NoHeader, <<>>>>,
     <<StatusUnauthorized, GoodChallenge, <<>>>>,
     <<StatusUnauthorized, BadChallenge, <<>>>>}

\* What the peer may write: responses with a decimal CSeq, one with CSeq "+1"
\* (which parses to 1), one without CSeq, one whose CSeq is not a number, a
\* request, interleaved data, garbage.
PeerFrames ==
    {Frame(RSP, h[1], h[2], t, h[3]) : h \in ResponseHeads, t \in NumericTexts}
        \cup {Frame(RSP, StatusNotFound, NoHeader, <<PLUS>> \o to_string(1), <<>>),
              Frame(RSP, StatusOk, NoHeader, <<>>, <<>>),
              Frame(RSP, StatusOk, NoHeader, <<LETTER>>, <<>>),
              Frame(REQ, 0, NoHeader, to_string(1), <<>>)}
        \cup {<<DOLLAR, 2, 0, 0>>, <<DOLLAR, 2, 0, 1, LETTER>>}
        \cup {<<LETTER>>}

\* The socket is read only inside poll_next, so what the peer writes at other
\* times is seen exactly as if it were written when the next poll starts.
PeerWrite ==
    /\ pc = "recv"
    /\ ~closed
    /\ nframes < MaxFrames
    /\ wire = <<>>
    /\ \E f \in PeerFrames : wire' = f
    /\ nframes' = nframes + 1
    /\ UNCHANGED <<pc, clientVars, connVars, closed, codecHist>>

PeerClose ==
    /\ pc = "recv"
    /\ wire = <<>>
    /\ ~closed
    /\ closed' = TRUE
    /\ UNCHANGED <<pc, clientVars, connVars, wire, nframes, codecHist>>

Next ==
    \/ Call
    \/ SendDone
    \/ SendFails
    \/ Abandon
    \/ RecvRead
    \/ RecvMsg
    \/ RecvFramingError
    \/ RecvIoError
    \/ RecvEof
    \/ PeerWrite
    \/ PeerClose

Spec == Init /\ [][Next]_vars

(***************************************************************************)
(* The same system with the history of abandonment kept: the call that     *)
(* follows an abandoned one is marked in exch.                             *)
(***************************************************************************)
CallNoting ==
    /\ pc = "idle"
    /\ ~has_errored
    /\ next_cseq <= MaxCseq
    /\ \E auth \in {requested_auth, "None"}, respond_ok \in BOOLEAN :
           Attempt(auth, FreshReq, NewExch(auth, result.kind = "abandoned"),
                   respond_ok)
    /\ UNCHANGED <<setupVars, connVars, peerVars, codecHist>>

AbandonNext ==
    \/ CallNoting
    \/ SendDone
    \/ SendFails
    \/ Abandon
    \/ RecvRead
    \/ RecvMsg
    \/ RecvFramingError
    \/ RecvIoError
    \/ RecvEof
    \/ PeerWrite
    \/ PeerClose

AbandonSpec == Init /\ [][AbandonNext]_vars

(***************************************************************************)
(* The system over a transport that delivers: no send or read fails, the   *)
(* peer does not close, the caller does not drop the call, and the peer    *)
(* answers every request it is sent.  Before the answer the peer may write *)
(* other messages (PeerOther).                                             *)
(***************************************************************************)
\* the responses that answer the request with sequence number c
Answers(c) == {Frame(RSP, h[1], h[2], to_string(c), h[3]) : h \in ResponseHeads}

\* The peer answers the request being awaited, once: not again when the answer
\* is the message the client has just read.
PeerAnswer ==
    /\ pc = "recv"
    /\ wire = <<>>
    /\ buf = <<>>
    /\ ~(polled.item = "Msg" /\ polled.msg.kind = "Response"
            /\ get_cseq(polled.msg) = cseq)
    /\ \E f \in Answers(cseq) : wire' = f
    /\ UNCHANGED <<pc, clientVars, connVars, closed, nframes, codecHist>>

\* What does not answer the request with sequence number c: a response to the
\* next number, a response without CSeq, a request, interleaved data, garbage.
Others(c) ==
    {Frame(RSP, StatusOk, NoHeader, to_string(c + 1), <<>>),
     Frame(RSP, StatusOk, NoHeader, <<>>, <<>>),
     Frame(REQ, 0, NoHeader, to_string(c), <<>>),
     <<DOLLAR, 2, 0, 1, LETTER>>, <<LETTER>>}

PeerOther ==
    /\ pc = "recv"
    /\ nframes < MaxFrames
    /\ wire = <<>>
    /\ \E f \in Others(cseq) : wire' = f
    /\ nframes' = nframes + 1
    /\ UNCHANGED <<pc, clientVars, connVars, closed, codecHist>>

DeliveryNext ==
    \/ Call
    \/ SendDone
    \/ RecvRead
    \/ RecvMsg
    \/ RecvFramingError
    \/ PeerOther
    \/ PeerAnswer

\* the stream can yield or read: the guards of RecvMsg, RecvFramingError, RecvRead
CanPoll ==
    /\ pc = "recv"
    /\ \/ decode(buf, read_pos).res \in {"Some", "Err"}
       \/ decode(buf, read_pos).res = "None" /\ wire # <<>>

\* one step of the stream being polled
Poll == RecvRead \/ RecvMsg \/ RecvFramingError

\* Fairness: the awaited future is polled whenever it can make progress (the
\* send completes; the stream reads, yields a message or fails), and the
\* peer's answer is delivered.  The last conjunct is WF_vars(Poll) written
\* out, with CanPoll for ENABLED <<Poll>>_vars.
DeliverySpec ==
    /\ Init
    /\ [][DeliveryNext]_vars
    /\ WF_vars(SendDone)
    /\ WF_vars(PeerAnswer)
    /\ ([]<>~CanPoll \/ []<><<Poll>>_vars)

(***************************************************************************)
(* The connection late in its life: the counter is within MaxCseq values   *)
(* of the u32 maximum.  sent holds the requests sent from then on; the     *)
(* peer answers each of them.                                              *)
(***************************************************************************)
CounterInit ==
    /\ url = Url("rtsp", "", "None", "Domain", <<>>)
    /\ dialed = <<[host |-> "Domain", port |-> DEFAULT_PORT]>>
    /\ creds \in {"None", "Some"}
    /\ next_cseq \in (U32Max - MaxCseq + 1)..U32Max
    /\ requested_auth = "None"
    /\ req = FreshReq
    /\ cseq = 0
    /\ pc = "idle"
    /\ result = NoResult
    /\ buf = <<>>
    /\ read_pos = 0
    /\ has_errored = FALSE
    /\ wire = <<>>
    /\ closed = FALSE
    /\ nframes = 0
    /\ sent = <<>>
    /\ exch = NewExch("None", FALSE)
    /\ polled = NoPoll
    /\ stream = <<>>
    /\ log = <<>>

\* the caller starts an exchange, as in Call, while the counter is within
\* MaxCseq values of its maximum, before it or past it
CounterCall ==
    /\ pc = "idle"
    /\ ~has_errored
    /\ next_cseq > U32Max - MaxCseq \/ next_cseq < MaxCseq
    /\ \E auth \in {requested_auth, "None"}, respond_ok \in BOOLEAN :
           Attempt(auth, FreshReq, NewExch(auth, FALSE), respond_ok)
    /\ UNCHANGED <<setupVars, connVars, peerVars, codecHist>>

CounterNext ==
    \/ CounterCall
    \/ SendDone
    \/ RecvRead
    \/ RecvMsg
    \/ PeerAnswer

CounterSpec == CounterInit /\ [][CounterNext]_vars

(***************************************************************************)
(* Connection setup: connect is called with a URL and optional             *)
(* credentials; the TCP connection attempt succeeds or fails.              *)
(***************************************************************************)
\* URLs the url crate can produce: one without host has no userinfo and no port
Urls ==
    {Url(sc, un, pw, h, pt) :
        sc \in {"rtsp", "rtsps", "http"}, un \in {"", "user"},
        pw \in {"None", "Some"}, h \in {"Domain", "Ipv4", "Ipv6"},
        pt \in {<<>>, <<DEFAULT_PORT>>, <<OTHER_PORT>>}}
        \cup {Url(sc, "", "None", "None", <<>>) : sc \in {"rtsp", "rtsps"}}

ConnectInit ==
    /\ url \in Urls
    /\ dialed = <<>>
    /\ creds \in {"None", "Some"}
    /\ next_cseq = 0
    /\ requested_auth = "None"
    /\ req = FreshReq
    /\ cseq = 0
    /\ pc = "connect"
    /\ result = NoResult
    /\ buf = <<>>
    /\ read_pos = 0
    /\ has_errored = FALSE
    /\ wire = <<>>
    /\ closed = FALSE
    /\ nframes = 0
    /\ sent = <<>>
    /\ exch = NewExch("None", FALSE)
    /\ polled = NoPoll
    /\ stream = <<>>
    /\ log = <<>>

\* connect, lines 35-38: validate the URL, then start the TCP connection
Connect ==
    /\ pc = "connect"
    /\ LET v == validate_url(url)
       IN  IF ~v.ok
           THEN /\ pc' = "failed"
                /\ result' = Outcome("InvalidArgument", v.err, 0, 0, 0)
                /\ dialed' = dialed
           ELSE /\ pc' = "dialing"
                /\ result' = result
                /\ dialed' = Append(dialed, [host |-> v.host,
                                             port |-> unwrap_or(url.port, DEFAULT_PORT)])
    /\ UNCHANGED <<url, creds, next_cseq, requested_auth, req, cseq, sent, exch,
                   connVars, peerVars, codecHist>>

\* Connection::connect succeeds: the RtspConnection is constructed
DialOk ==
    /\ pc = "dialing"
    /\ pc' = "idle"
    /\ next_cseq' = 1
    /\ UNCHANGED <<setupVars, requested_auth, req, cseq, result, sent, exch,
                   connVars, peerVars, codecHist>>

\* Connection::connect fails: ConnectError
DialFails ==
    /\ pc = "dialing"
    /\ pc' = "failed"
    /\ result' = Outcome("ConnectError", "", 0, 0, 0)
    /\ UNCHANGED <<setupVars, next_cseq, requested_auth, req, cseq, sent, exch,
                   connVars, peerVars, codecHist>>

ConnectNext ==
    \/ Connect
    \/ DialOk
    \/ DialFails

ConnectSpec == ConnectInit /\ [][ConnectNext]_vars

(***************************************************************************)
(* The codec on its own: the peer writes frames, the socket delivers them  *)
(* in chunks of any size, and decode is called on the buffer at any time.  *)
(***************************************************************************)
CodecFrames ==
    {<<DOLLAR, 2, 0, 0>>,
     <<DOLLAR, 2, 0, 4, 65, 66, 67, 68>>,
     <<DOLLAR, 255, 0, 2, DOLLAR, LF>>,
     <<DOLLAR, 1, 1, 0>>,
     Frame(RSP, StatusOk, NoHeader, to_string(1), <<>>),
     Frame(RSP, StatusOk, NoHeader, to_string(1), <<DOLLAR>>),
     Frame(REQ, 0, NoHeader, <<>>, <<>>),
     <<LETTER>>}

CodecInit == Init /\ creds = "None"

CodecWrite ==
    /\ nframes < MaxCodecFrames
    /\ \E f \in CodecFrames : wire' = wire \o f
    /\ nframes' = nframes + 1
    /\ UNCHANGED <<pc, clientVars, connVars, closed, codecHist>>

\* Framed appends what the socket read returns to the buffer
CodecRead ==
    /\ \E n \in 1..Len(wire) :
           /\ buf' = buf \o Take(wire, n)
           /\ stream' = stream \o Take(wire, n)
           /\ wire' = Drop(wire, n)
    /\ polled' = Polled("Read", 0, 0, NoMsg, polled.partial)
    /\ UNCHANGED <<pc, clientVars, read_pos, has_errored, closed, nframes, log>>

\* Codec::decode on the buffer
CodecDecode ==
    /\ polled.item # "Unreachable"
    /\ LET d == decode(buf, read_pos)
       IN  /\ buf' = d.src
           /\ read_pos' = d.read_pos
           /\ polled' = Polled(CASE d.res = "Some" -> "Msg"
                                 [] d.res = "None" -> "NeedMore"
                                 [] d.res = "Err" -> "FramingError"
                                 [] OTHER -> "Unreachable",
                               d.ctx.pos,
                               IF d.res = "Err" THEN d.dumped ELSE d.len,
                               d.msg,
                               CASE d.res = "Some" -> 0
                                 [] d.res = "None" /\ polled.item = "Read" ->
                                      polled.partial + 1
                                 [] OTHER -> polled.partial)
           /\ log' = IF d.res = "Some"
                     THEN Append(log, [pos |-> d.ctx.pos, len |-> d.len, msg |-> d.msg,
                                       partial |-> polled.partial])
                     ELSE log
    /\ UNCHANGED <<pc, clientVars, has_errored, peerVars, stream>>

CodecNext ==
    \/ CodecWrite
    \/ CodecRead
    \/ CodecDecode

CodecSpec == CodecInit /\ [][CodecNext]_vars

(***************************************************************************)
(* The codec under a transport that may fail: as above, and a socket read  *)
(* may return an I/O error, after which the stream is not polled again.    *)
(***************************************************************************)
ReadWrite == ~has_errored /\ CodecWrite

ReadRead == ~has_errored /\ CodecRead

ReadDecode == ~has_errored /\ CodecDecode

\* poll_next, lines 212-218: Framed reads from the socket when decode needs
\* more data; the read fails and the stream yields RtspReadError
ReadFails ==
    /\ ~has_errored
    /\ decode(buf, read_pos).res = "None"
    /\ polled' = Polled("ReadError", eof_ctx(read_pos, buf).pos, 0, NoMsg,
                        polled.partial)
    /\ has_errored' = TRUE
    /\ UNCHANGED <<pc, clientVars, buf, read_pos, peerVars, codecHist>>

ReadNext ==
    \/ ReadWrite
    \/ ReadRead
    \/ ReadDecode
    \/ ReadFails

ReadSpec == CodecInit /\ [][ReadNext]_vars

(***************************************************************************)
(* The codec fed with malformed input: a socket read returns a whole       *)
(* well-formed frame or a run of octets the grammar parser rejects, short  *)
(* or longer than the dump limit, and decode is called on the buffer.      *)
(***************************************************************************)
\* n octets that start no RTSP message
Malformed(n) == [i \in 1..n |-> LETTER]

FramingFeeds ==
    {<<DOLLAR, 2, 0, 1, LETTER>>,
     Frame(RSP, StatusOk, NoHeader, to_string(1), <<LETTER>>),
     Frame(REQ, 0, NoHeader, <<>>, <<>>),
     <<RSP, LETTER>>}
        \cup {Malformed(n) : n \in {1, MAX_DUMP_BYTES - 1, MAX_DUMP_BYTES,
                                    MAX_DUMP_BYTES + 1}}

FramingFeed ==
    /\ nframes < MaxFeeds
    /\ \E f \in FramingFeeds :
           /\ buf' = buf \o f
           /\ stream' = stream \o f
    /\ nframes' = nframes + 1
    /\ polled' = Polled("Read", 0, 0, NoMsg, polled.partial)
    /\ UNCHANGED <<pc, clientVars, read_pos, has_errored, wire, closed, log>>

FramingNext ==
    \/ FramingFeed
    \/ CodecDecode

FramingSpec == CodecInit /\ [][FramingNext]_vars

(***************************************************************************)
(* Properties of get_sdp (under Spec).                                     *)
(***************************************************************************)
\* a step in which get_sdp takes a message off the stream; polled' holds it
RecvStep == pc = "recv" /\ read_pos' # read_pos

CSeqValue(text) == u32_from_str_radix(text)

LastSent == sent[Len(sent)]

\* m is a response whose CSeq is the value on the most recently sent request
AnswersLast(m) ==
    /\ m.kind = "Response"
    /\ m.cseq # <<>>
    /\ CSeqValue(m.cseq) # -1
    /\ CSeqValue(m.cseq) = CSeqValue(LastSent.cseq)

\* the first request of an exchange that started with an empty slot, on a
\* connection with credentials, is answered Unauthorized with a good challenge
C1_FirstUnauthorized(m) ==
    /\ AnswersLast(m)
    /\ creds = "Some"
    /\ exch.start_auth = "None"
    /\ exch.n_sent = 1
    /\ m.status = StatusUnauthorized
    /\ m.www_authenticate = GoodChallenge

\* one further request goes out, with a fresh CSeq and an Authorization header
C1_RetrySent ==
    /\ Len(sent') = Len(sent) + 1
    /\ sent'[Len(sent')].authorization
    /\ \A i \in 1..Len(sent) :
           CSeqValue(sent[i].cseq) < CSeqValue(sent'[Len(sent')].cseq)
    /\ requested_auth' = "Some"
    /\ exch'.responds = exch.responds + 1
    /\ pc' = "send"

\* the Authorization header could not be computed: Internal error, nothing sent
C1_RetryFailed ==
    /\ sent' = sent
    /\ requested_auth' = "Some"
    /\ exch'.responds = exch.responds + 1
    /\ pc' = "idle"
    /\ result'.kind = "Internal"

C1_SecondUnauthorized(m) ==
    /\ AnswersLast(m)
    /\ creds = "Some"
    /\ exch.start_auth = "None"
    /\ exch.n_sent = 2
    /\ m.status = StatusUnauthorized

C1_EndsWithResponseError ==
    /\ pc' = "idle"
    /\ result'.kind = "RtspResponseError"
    /\ sent' = sent

\* C1 as stated: after Unauthorized with a parsable challenge (empty slot,
\* credentials present) exactly one further request is sent, with a fresh
\* sequence number and an Authorization header; a second Unauthorized ends the
\* exchange with RtspResponseError and no third request; no exchange sends
\* more than two requests.
C1_ExactlyOneRetry ==
    /\ [][RecvStep =>
            /\ C1_FirstUnauthorized(polled'.msg) => C1_RetrySent
            /\ C1_SecondUnauthorized(polled'.msg) => C1_EndsWithResponseError]_vars
    /\ [](exch.n_sent <= 2)

\* C1 amended: after Unauthorized with a parsable challenge (empty slot,
\* credentials present) the slot is filled and the Authorization header is
\* computed; if that succeeds exactly one further request is sent, with a
\* fresh sequence number and the Authorization header, and if it fails the
\* exchange ends with an Internal error and nothing further is sent.  A second
\* Unauthorized ends the exchange with RtspResponseError and no third
\* request; no exchange sends more than two requests.
C1_AtMostOneRetry ==
    /\ [][RecvStep =>
            /\ C1_FirstUnauthorized(polled'.msg) => (C1_RetrySent \/ C1_RetryFailed)
            /\ C1_SecondUnauthorized(polled'.msg) => C1_EndsWithResponseError]_vars
    /\ [](exch.n_sent <= 2)

\* the retry was sent with an Authorization header and was answered Unauthorized again
C1_Witness ==
    /\ creds = "Some"
    /\ exch.start_auth = "None"
    /\ exch.n_sent = 2
    /\ sent[Len(sent)].authorization
    /\ pc = "idle"
    /\ result.kind = "RtspResponseError"
    /\ result.description = "Received Unauthorized after trying digest auth"

\* C2: without credentials and with an empty slot, an Unauthorized matching
\* response ends the exchange with RtspResponseError; respond is never called,
\* the slot stays empty and no second request is sent.
C2_NoCredentialsNoRetry ==
    /\ [][RecvStep /\ AnswersLast(polled'.msg)
              /\ polled'.msg.status = StatusUnauthorized
              /\ creds = "None" /\ requested_auth = "None" =>
            /\ pc' = "idle"
            /\ result'.kind = "RtspResponseError"
            /\ sent' = sent
            /\ requested_auth' = "None"
            /\ exch'.responds = 0]_vars
    /\ [](creds = "None" /\ exch.start_auth = "None" =>
            /\ exch.responds = 0
            /\ requested_auth = "None"
            /\ exch.n_sent <= 1)

\* a challenge with a parsable header was refused for lack of credentials
C2_Witness ==
    /\ creds = "None"
    /\ pc = "idle"
    /\ result.kind = "RtspResponseError"
    /\ result.status = StatusUnauthorized
    /\ polled.msg.www_authenticate = GoodChallenge
    /\ requested_auth = "None"
    /\ exch.n_sent = 1

\* the messages C3 lists as discarded
C3_NonMatching(m) ==
    \/ m.kind = "Request"
    \/ m.kind = "Data"
    \/ /\ m.kind = "Response"
       /\ \/ m.cseq = <<>>
          \/ CSeqValue(m.cseq) = -1
          \/ CSeqValue(m.cseq) # CSeqValue(LastSent.cseq)

\* C3: while awaiting, a request, a data frame, a response without CSeq, with
\* a CSeq that is no base-10 u32, or with a CSeq other than the one on the most
\* recently sent request is discarded: the exchange goes on waiting and sends
\* nothing.  The response get_sdp acts upon carries the CSeq of the most
\* recently sent request.
C3_OnlyMatchingActedUpon ==
    [][RecvStep =>
          /\ C3_NonMatching(polled'.msg) =>
                /\ pc' = "recv"
                /\ sent' = sent
                /\ result' = result
                /\ UNCHANGED <<next_cseq, requested_auth, req, cseq, exch>>
          /\ (pc' # "recv" \/ sent' # sent \/ result' # result) =>
                AnswersLast(polled'.msg)]_vars

\* awaiting the answer to the retry, a late response to the first attempt was discarded
C3_Witness ==
    /\ pc = "recv"
    /\ exch.n_sent = 2
    /\ polled.item = "Msg"
    /\ polled.msg.kind = "Response"
    /\ polled.msg.status = StatusOk
    /\ CSeqValue(polled.msg.cseq) = CSeqValue(sent[Len(sent) - 1].cseq)
    /\ polled.pos > 0

\* C4: over any sequence of exchanges on one connection the CSeq values
\* stamped on successive requests are strictly increasing, none stamped twice.
C4_CSeqStrictlyIncreasing ==
    \A i, j \in 1..Len(sent) :
        i < j => /\ CSeqValue(sent[i].cseq) >= 1
                 /\ CSeqValue(sent[i].cseq) < CSeqValue(sent[j].cseq)

\* three requests over two exchanges, the first failed, the second retried
C4_Witness ==
    /\ Len(sent) = 3
    /\ exch.n_sent = 2
    /\ ~sent[1].authorization
    /\ sent[3].authorization

\* C5: the counter starts at 1 and no value is skipped: the k-th request
\* handed to the transport carries CSeq = k.
C5_KthRequestCarriesK ==
    \A k \in 1..Len(sent) : CSeqValue(sent[k].cseq) = k

\* C10: when the inbound stream ends while get_sdp awaits a response, the
\* exchange returns one terminal Error to the caller (no panic).
C10_StreamEndReturnsError ==
    polled.item = "None" => (pc = "idle" /\ result.kind \in ErrorKinds)

\* C11: the status of the matching response decides the outcome: a success
\* status returns the response with its message context and the sequence number
\* of the request it answers; a status that is neither success nor Unauthorized
\* ends the exchange with RtspResponseError "Unexpected RTSP response status";
\* either way nothing further is sent and the slot is left as it was.
C11_StatusDecidesOutcome ==
    [][RecvStep /\ AnswersLast(polled'.msg) =>
          /\ is_success(polled'.msg.status) =>
                /\ pc' = "idle"
                /\ result'.kind = "Ok"
                /\ result'.pos = polled'.pos
                /\ result'.cseq = CSeqValue(LastSent.cseq)
                /\ result'.status = polled'.msg.status
                /\ sent' = sent
                /\ requested_auth' = requested_auth
          /\ (~is_success(polled'.msg.status)
                  /\ polled'.msg.status # StatusUnauthorized) =>
                /\ pc' = "idle"
                /\ result'.kind = "RtspResponseError"
                /\ result'.description = "Unexpected RTSP response status"
                /\ result'.status = polled'.msg.status
                /\ sent' = sent
                /\ requested_auth' = requested_auth]_vars

\* the retry was answered with a success status, after an earlier message
C11_Witness ==
    /\ pc = "idle"
    /\ result.kind = "Ok"
    /\ result.status = StatusOk
    /\ exch.n_sent = 2
    /\ result.cseq = CSeqValue(LastSent.cseq)
    /\ result.pos > 0
    /\ requested_auth = "Some"

\* an Unauthorized matching response met with an empty slot
UnauthorizedEmptySlot(m) ==
    /\ AnswersLast(m)
    /\ m.status = StatusUnauthorized
    /\ requested_auth = "None"

C18_NoCredentialsDescription ==
    [][RecvStep /\ UnauthorizedEmptySlot(polled'.msg) /\ creds = "None" =>
          /\ pc' = "idle"
          /\ result'.kind = "RtspResponseError"
          /\ result'.description =
                 "Authentication requested and no credentials supplied"]_vars

\* C18 amended: with an empty slot and no credentials an Unauthorized matching
\* response that carries a WWW-Authenticate header, parsable or not, fails with
\* "Authentication requested and no credentials supplied"; one that carries no
\* WWW-Authenticate header fails with "Unauthorized without WWW-Authenticate
\* header".
C18_NoCredentialsAfterHeaderCheck ==
    [][RecvStep /\ UnauthorizedEmptySlot(polled'.msg) /\ creds = "None" =>
          /\ pc' = "idle"
          /\ result'.kind = "RtspResponseError"
          /\ result'.description =
                 IF polled'.msg.www_authenticate = NoHeader
                 THEN "Unauthorized without WWW-Authenticate header"
                 ELSE "Authentication requested and no credentials supplied"]_vars

\* without credentials an unparsable challenge is reported as missing credentials
C18_Witness ==
    /\ pc = "idle"
    /\ creds = "None"
    /\ result.kind = "RtspResponseError"
    /\ result.description = "Authentication requested and no credentials supplied"
    /\ polled.msg.www_authenticate = BadChallenge
    /\ exch.start_auth = "None"

\* the one situation in which get_sdp fills the slot
C19_Challenge(m) ==
    /\ UnauthorizedEmptySlot(m)
    /\ m.www_authenticate # NoHeader
    /\ PasswordClientTryFrom(m.www_authenticate)
    /\ creds = "Some"

\* C19: inside get_sdp (a step from "idle" is the caller handing in a slot) the
\* slot changes in exactly one situation, from empty to filled, when an
\* Unauthorized matching response carries a parsable WWW-Authenticate header
\* and the connection has credentials; every other step, error paths included,
\* leaves it unchanged, and a filled slot is never emptied or replaced.
C19_SlotFilledOnlyByChallenge ==
    [][pc # "idle" =>
          /\ requested_auth' # requested_auth =>
                /\ RecvStep
                /\ C19_Challenge(polled'.msg)
                /\ requested_auth' = "Some"
          /\ (RecvStep /\ C19_Challenge(polled'.msg)) => requested_auth' = "Some"
          /\ requested_auth = "Some" => requested_auth' = "Some"]_vars

\* the slot was filled and stays filled although the retry could not be built
C19_Witness ==
    /\ pc = "idle"
    /\ result.kind = "Internal"
    /\ exch.start_auth = "None"
    /\ exch.n_sent = 1
    /\ requested_auth = "Some"

\* C20: over any sequence of exchanges in which the slot starts empty and is
\* only modified by get_sdp (a filled slot may be handed in again), a filled
\* slot implies credentials, so the expect in fill_req never fails.
C20_ExpectNeverFails ==
    /\ requested_auth = "Some" => creds = "Some"
    /\ result.description # "creds were checked when filling request_auth"

\* a later exchange was started with the filled slot and fill_req used it
C20_Witness ==
    /\ exch.start_auth = "Some"
    /\ exch.responds = 1
    /\ exch.n_sent = 1
    /\ pc = "recv"
    /\ LastSent.authorization

\* m is a response to a request sent before the most recent one
LateResponse(m) ==
    /\ m.kind = "Response"
    /\ CSeqValue(m.cseq) # -1
    /\ \E i \in 1..(Len(sent) - 1) : CSeqValue(sent[i].cseq) = CSeqValue(m.cseq)

\* C16: abandoning an exchange after its request was sent leaves the connection
\* as it is; the next get_sdp stamps a sequence number above every earlier one,
\* discards a late response to the abandoned request, returns only the
\* response to its own request, and message positions go on from the running
\* byte count without reset or gap.
C16_AbandonLeavesConnectionReusable ==
    /\ [][(pc = "recv" /\ pc' = "idle" /\ result'.kind = "abandoned") =>
              UNCHANGED <<next_cseq, requested_auth, sent, buf, read_pos, wire>>]_vars
    /\ [][(pc = "idle" /\ result.kind = "abandoned" /\ sent' # sent) =>
              /\ sent' = Append(sent, sent'[Len(sent')])
              /\ \A i \in 1..Len(sent) :
                     CSeqValue(sent[i].cseq) < CSeqValue(sent'[Len(sent')].cseq)
              /\ UNCHANGED <<buf, read_pos>>]_vars
    /\ [][(RecvStep /\ exch.after_abandon) =>
              /\ polled'.pos = read_pos
              /\ read_pos' = read_pos + polled'.len
              /\ LateResponse(polled'.msg) =>
                    /\ pc' = "recv"
                    /\ result' = result
                    /\ sent' = sent
              /\ (pc' = "idle" /\ result'.kind = "Ok") =>
                    /\ AnswersLast(polled'.msg)
                    /\ result'.cseq = CSeqValue(LastSent.cseq)
                    /\ result'.pos = polled'.pos]_vars

\* the exchange after an abandoned one has just discarded the late response to
\* the abandoned request
C16_Witness ==
    /\ pc = "recv"
    /\ exch.after_abandon
    /\ exch.n_sent = 1
    /\ Len(sent) >= 2
    /\ polled.item = "Msg"
    /\ polled.msg.kind = "Response"
    /\ CSeqValue(polled.msg.cseq) = CSeqValue(sent[Len(sent) - 1].cseq)
    /\ read_pos = polled.pos + polled.len
    /\ read_pos > 0

(***************************************************************************)
(* Properties of connect (under ConnectSpec).                              *)
(***************************************************************************)
\* the URLs C15 says are refused
C15_Refused(u) ==
    \/ u.scheme # "rtsp"
    \/ u.username # ""
    \/ u.password # "None"
    \/ u.host = "None"

\* C15: connect validates the URL before any network activity: a URL whose
\* scheme is not rtsp, that carries a username or a password, or that names no
\* host fails with InvalidArgument and no TCP connection attempt is made;
\* otherwise exactly one attempt is made, to the URL's port if present and to
\* port 554 if not.
C15_ValidateBeforeConnect ==
    /\ pc = "connect" => dialed = <<>>
    /\ (pc # "connect" /\ C15_Refused(url)) =>
          /\ pc = "failed"
          /\ result.kind = "InvalidArgument"
          /\ dialed = <<>>
    /\ (pc # "connect" /\ ~C15_Refused(url)) =>
          /\ Len(dialed) = 1
          /\ dialed[1].host = url.host
          /\ dialed[1].port = (IF url.port = <<>> THEN 554 ELSE url.port[1])
          /\ result.kind # "InvalidArgument"

\* a URL without a port was dialed once, on port 554
C15_Witness ==
    /\ pc = "idle"
    /\ url.port = <<>>
    /\ url.host = "Ipv6"
    /\ dialed = <<[host |-> "Ipv6", port |-> 554]>>
    /\ next_cseq = 1

(***************************************************************************)
(* Properties of the codec (under CodecSpec).                              *)
(***************************************************************************)
\* a step that is a call of decode: nothing is written or read
DecodeStep == wire' = wire /\ stream' = stream

\* the sum of the consumed lengths of the first n decoded messages
RECURSIVE ConsumedBefore(_, _)
ConsumedBefore(l, n) == IF n = 0 THEN 0 ELSE ConsumedBefore(l, n - 1) + l[n].len

\* C6: the pos stamped on the n-th decoded message is the sum of the consumed
\* lengths of the n-1 messages before it, starting at 0; pos never decreases;
\* read_pos after n messages is the sum of all n lengths.
C6_PosIsRunningSum ==
    /\ \A n \in 1..Len(log) : log[n].pos = ConsumedBefore(log, n - 1)
    /\ \A n \in 2..Len(log) : log[n - 1].pos <= log[n].pos
    /\ read_pos = ConsumedBefore(log, Len(log))

\* an interleaved-data frame and then a response have been decoded
C6_Witness ==
    /\ Len(log) = 2
    /\ log[1].msg.kind = "Data"
    /\ log[2].msg.kind = "Response"
    /\ log[2].pos = 8
    /\ read_pos = 15

\* the payload length the header of an interleaved frame announces
PayloadLen(b) == b[3] * 256 + b[4]

\* the three cases in which decode needs more data
NeedMoreCase(b) ==
    \/ b # <<>> /\ b[1] = DOLLAR /\ Len(b) < 4
    \/ b # <<>> /\ b[1] = DOLLAR /\ Len(b) >= 4 /\ Len(b) < 4 + PayloadLen(b)
    \/ (b = <<>> \/ b[1] # DOLLAR) /\ MessageParse(b).tag = "Incomplete"

\* the complete frames the peer writes
WholeFrames ==
    {f \in CodecFrames :
        /\ f[1] \in {DOLLAR, RSP, REQ}
        /\ f[1] = DOLLAR => Len(f) = 4 + PayloadLen(f)}

StartsWith(b, f) == Len(b) >= Len(f) /\ Take(b, Len(f)) = f

\* C7: when decode reports need-more-data (one of the three cases) the buffer
\* and read_pos are unchanged; once the buffer holds a full frame the next
\* decode call yields that frame.
C7_NeedMoreConsumesNothing ==
    [][DecodeStep =>
          /\ NeedMoreCase(buf) =>
                /\ polled'.item = "NeedMore"
                /\ buf' = buf
                /\ read_pos' = read_pos
                /\ log' = log
          /\ polled'.item = "NeedMore" /\ polled' # polled =>
                NeedMoreCase(buf) /\ buf' = buf /\ read_pos' = read_pos
          /\ \A f \in WholeFrames :
                StartsWith(buf, f) =>
                    /\ polled'.item = "Msg"
                    /\ polled'.len = Len(f)
                    /\ buf' = Drop(buf, Len(f))
                    /\ polled'.msg.kind =
                           (CASE f[1] = DOLLAR -> "Data"
                              [] f[1] = RSP -> "Response"
                              [] OTHER -> "Request")]_vars

\* the frame "$\x02\x00\x04ABCD" was yielded after decode had answered
\* need-more-data to three of its prefixes
C7_Witness ==
    /\ Len(log) = 2
    /\ log[2].partial = 3
    /\ log[2].len = 8
    /\ log[2].msg.body = <<65, 66, 67, 68>>
    /\ buf = <<>>

\* b is a non-empty proper prefix of a complete interleaved-data frame
ProperPrefixOfData(b) ==
    /\ b # <<>>
    /\ \E f \in WholeFrames :
           f[1] = DOLLAR /\ Len(b) < Len(f) /\ Take(f, Len(b)) = b

\* C8: however the bytes of a well-formed interleaved-data frame are split
\* into chunks, decode reports need-more-data for every proper prefix and,
\* once all bytes are present, yields what decoding the frame delivered in one
\* chunk yields: channel id, payload, consumed length and pos.
C8_ChunkBoundaryInvariance ==
    /\ [][DecodeStep /\ ProperPrefixOfData(buf) =>
             polled'.item = "NeedMore" /\ log' = log /\ buf' = buf]_vars
    /\ [](\A n \in 1..Len(log) :
             log[n].msg.kind = "Data" =>
                 LET f == SubSeq(stream, log[n].pos + 1, log[n].pos + log[n].len)
                     one == decode(f, log[n].pos)
                 IN  /\ one.res = "Some"
                     /\ one.src = <<>>
                     /\ one.msg.channel_id = log[n].msg.channel_id
                     /\ one.msg.body = log[n].msg.body
                     /\ one.len = log[n].len
                     /\ one.ctx.pos = log[n].pos)
    /\ [](\A f \in WholeFrames :
             f[1] = DOLLAR /\ stream = f /\ buf = <<>> =>
                 /\ Len(log) = 1
                 /\ log[1].msg = decode(f, 0).msg
                 /\ log[1].len = Len(f))

\* a data frame that arrived in at least three chunks, after another message
C8_Witness ==
    /\ Len(log) = 2
    /\ log[2].msg.kind = "Data"
    /\ log[2].partial >= 2
    /\ log[2].pos > 0
    /\ log[2].msg.body = <<DOLLAR, LF>>

\* C9: when the buffer starts with '$' and holds at least 4 + L bytes (L the
\* big-endian value of bytes 2..3), decode consumes exactly 4 + L bytes and
\* yields a data frame with channel id byte 1 and payload bytes 4..4+L-1
\* (empty when L = 0); the bytes after the frame stay in the buffer, unchanged
\* and in order.
C9_DataFrameDecoded ==
    [][DecodeStep /\ buf # <<>> /\ buf[1] = DOLLAR /\ Len(buf) >= 4
           /\ Len(buf) >= 4 + PayloadLen(buf) =>
          /\ polled'.item = "Msg"
          /\ polled'.len = 4 + PayloadLen(buf)
          /\ read_pos' = read_pos + 4 + PayloadLen(buf)
          /\ polled'.msg.kind = "Data"
          /\ polled'.msg.channel_id = buf[2]
          /\ polled'.msg.body = SubSeq(buf, 5, 4 + PayloadLen(buf))
          /\ buf' = SubSeq(buf, 4 + PayloadLen(buf) + 1, Len(buf))
          /\ log' = Append(log, [pos |-> read_pos, len |-> 4 + PayloadLen(buf),
                                 msg |-> polled'.msg, partial |-> polled.partial])]_vars

\* a frame with an empty payload was decoded and the bytes behind it are still buffered
C9_Witness ==
    /\ polled.item = "Msg"
    /\ polled.msg.kind = "Data"
    /\ polled.msg.body = <<>>
    /\ polled.len = 4
    /\ Len(buf) >= 4

\* the grammar parser is invoked on b: b is empty or does not start with '$'
ParserInvoked(b) == b = <<>> \/ b[1] # DOLLAR

C13_ReadErrorPosCountsEveryByte ==
    /\ read_pos + Len(buf) = Len(stream)
    /\ buf = Drop(stream, read_pos)
    /\ read_pos = ConsumedBefore(log, Len(log))
    /\ polled.item = "ReadError" =>
          /\ polled.pos = read_pos + Len(buf)
          /\ polled.pos = Len(stream)

\* the read failed after one message was consumed and part of the next buffered
C13_Witness ==
    /\ polled.item = "ReadError"
    /\ Len(log) = 1
    /\ read_pos > 0
    /\ buf # <<>>
    /\ wire # <<>>
    /\ polled.pos = read_pos + Len(buf)
    /\ polled.partial > 0

(***************************************************************************)
(* Properties of the framing error (under FramingSpec).                    *)
(***************************************************************************)
\* the grammar parser is invoked on the buffer and reports it malformed
ParserRejects(b) ==
    /\ ~(b # <<>> /\ b[1] = DOLLAR)
    /\ MessageParse(b).tag = "Error"

\* C14: when the grammar parser reports the buffered octets malformed, decode
\* fails with a parse error surfaced as RtspFramingError whose pos is read_pos
\* at that moment, the sum of the lengths of the frames consumed so far; no
\* octet is consumed and read_pos stays; the dump covers the whole buffer when
\* it holds at most 128 octets and its first 128 otherwise, never more.
C14_FramingErrorPosAndDump ==
    [][(DecodeStep /\ ParserRejects(buf)) =>
          /\ polled'.item = "FramingError"
          /\ polled'.pos = read_pos
          /\ polled'.pos = ConsumedBefore(log, Len(log))
          /\ buf' = buf
          /\ read_pos' = read_pos
          /\ log' = log
          /\ polled'.len = (IF Len(buf) <= 128 THEN Len(buf) ELSE 128)
          /\ polled'.len <= 128]_vars

\* after a consumed frame, a malformed buffer longer than the dump limit
C14_Witness ==
    /\ polled.item = "FramingError"
    /\ Len(log) >= 1
    /\ polled.pos = read_pos
    /\ read_pos > 0
    /\ Len(buf) > MAX_DUMP_BYTES
    /\ polled.len = MAX_DUMP_BYTES


(***************************************************************************)
(* Termination of an exchange (under DeliverySpec).                        *)
(***************************************************************************)
\* the call is suspended in get_sdp
InExchange == pc \in {"send", "recv"}

\* the call has returned, with success or with an error
Returned == pc = "idle" /\ result.kind \in {"Ok"} \cup ErrorKinds

\* C21: when the transport delivers a matching response for every request
\* sent and reports no I/O error, every get_sdp exchange sends at most two
\* requests and eventually returns, with success or with an error, however
\* many other messages it discards before the matching response.
C21_DeliveredExchangeTerminates ==
    /\ [](exch.n_sent <= 2)
    /\ InExchange ~> Returned

\* the first exchange has returned Ok after two requests, having consumed more
\* octets than its two answers: MaxFrames other messages were read and
\* discarded while awaiting
C21_Witness ==
    /\ Returned
    /\ result.kind = "Ok"
    /\ exch.n_sent = 2
    /\ Len(sent) = 2
    /\ nframes = MaxFrames
    /\ \A a \in Answers(1), b \in Answers(2) : read_pos > Len(a) + Len(b)


(***************************************************************************)
(* The counter at its maximum (under CounterSpec).                         *)
(***************************************************************************)
\* fill_req has run in this step: at the start of a call or of the retry
FillReqStep ==
    /\ pc \in {"idle", "recv"}
    /\ \/ pc' \in {"send", "panicked"}
       \/ pc' = "idle" /\ result'.kind = "Internal"

\* the sequence numbers on the requests sent
Issued(s) == {CSeqValue(s[i].cseq) : i \in 1..Len(s)}

\* C22: the counter never wraps to a value already issued: whatever
\* next_cseq is, its maximum included, fill_req returns (it does not panic),
\* the request it fills carries the value next_cseq had, and it leaves
\* next_cseq greater than that value and than every value issued so far.
C22_CounterNeverWraps ==
    [][FillReqStep =>
           /\ pc' # "panicked"
           /\ pc' = "send" => cseq' = next_cseq
           /\ next_cseq' > next_cseq
           /\ \A v \in Issued(sent') : v < next_cseq']_vars

====
